---- MODULE Spec2Model ----
(***************************************************************************)
(* A model of the whac-a-mole terminal game (src/src/main.rs):             *)
(*   - GameView::build_block / update_block_char, the wall-bitmask grid;   *)
(*   - the Game behind the GAME mutex, and the three threads that use it:  *)
(*     main (startup, then the key loop), the spawn thread, the timer      *)
(*     thread.                                                             *)
(* Glyphs are written as their Unicode code points ("U+2551" is the        *)
(* double vertical line).                                                  *)
(***************************************************************************)
EXTENDS Integers, Sequences, FiniteSets, TLC

---------------------------------------------------------------------------
(* Program constants *)

Width == 70
Height == 25
NumHoles == 9
MaxMoles == 6
InitTime == 60
WinScore == 1024
HitPoints == 10
\* where the text overlays are written: column 50, rows 9, 11, 13 and 5
TextLeft == 50
ScoreTop == 9
TimeTop == 11
QuitTop == 13
OverTop == 5

(* Bounds of the model *)

\* the grid of the build_block specifications is GridW x GridH cells
GridW == 4
GridH == 3
\* build_block is called at most MaxCalls times
MaxCalls == 2
\* random hole indices and digit keys range over the first HoleBound holes
HoleBound == 2
\* a spawn tick draws at most MaxPicks moles
MaxPicks == 3
\* Spec: strikes score only while scores < MaxHits * HitPoints
MaxHits == 3
\* SpecWin: the timer thread is scheduled only once the score is within
\* PreWinHits strikes of the winning score, and strikes score until
\* PostWinHits strikes after it
PreWinHits == 2
PostWinHits == 2

Min(a, b) == IF a < b THEN a ELSE b

---------------------------------------------------------------------------
(* The wall-bitmask grid *)

CHAR_VIEW_LIST ==
    << " ", "U+4E0A", "U+4E0B", "U+2551", "U+5DE6", "U+255A", "U+2554", "U+2560",
       "U+53F3", "U+255D", "U+2557", "U+2563", "U+2550", "U+2569", "U+2566", "U+256C" >>

RECURSIVE BitOr(_, _)
BitOr(a, b) ==
    IF a = 0 THEN b
    ELSE IF b = 0 THEN a
    ELSE (IF a % 2 = 1 \/ b % 2 = 1 THEN 1 ELSE 0) + 2 * BitOr(a \div 2, b \div 2)

RECURSIVE BitAnd(_, _)
BitAnd(a, b) ==
    IF a = 0 \/ b = 0 THEN 0
    ELSE (IF a % 2 = 1 /\ b % 2 = 1 THEN 1 ELSE 0) + 2 * BitAnd(a \div 2, b \div 2)

BlockSize == [width |-> GridW, height |-> GridH]
GameSize == [width |-> Width, height |-> Height]

\* GameView::new: points all 0
NewPoints(size) == [r \in 0..(size.height - 1) |-> [c \in 0..(size.width - 1) |-> 0]]

\* self.points[r][c] |= v
OrAt(g, r, c, v) == [g EXCEPT ![r][c] = BitOr(@, v)]

\* self.points[r][c] = v  (an overwrite, which build_block never does)
SetAt(g, r, c, v) == [g EXCEPT ![r][c] = v]

\* the guard of build_block: TRUE when the call prints the message and exits
Rejected(size, top, bottom, left, right) ==
    \/ top >= size.height
    \/ bottom >= size.height
    \/ left >= size.width
    \/ right >= size.width
    \/ left = right
    \/ top = bottom

\* for i in (top + 1)..bottom: points[i][left] |= 3 and nothing else
VerticalEdgesLeftOnly(g, top, bottom, left, right) ==
    [r \in DOMAIN g |-> [c \in DOMAIN g[r] |->
        IF top + 1 <= r /\ r < bottom /\ c = left THEN BitOr(g[r][c], 3) ELSE g[r][c]]]

\* for i in (top + 1)..bottom: points[i][left] |= 3; points[i][right] |= 3
VerticalEdges(g, top, bottom, left, right) ==
    [r \in DOMAIN g |-> [c \in DOMAIN g[r] |->
        IF top + 1 <= r /\ r < bottom /\ c \in {left, right}
        THEN BitOr(g[r][c], 3) ELSE g[r][c]]]

\* for i in (left + 1)..right: points[top][i] |= 12; points[bottom][i] |= 12
HorizontalEdges(g, top, bottom, left, right) ==
    [r \in DOMAIN g |-> [c \in DOMAIN g[r] |->
        IF left + 1 <= c /\ c < right /\ r \in {top, bottom}
        THEN BitOr(g[r][c], 12) ELSE g[r][c]]]

\* corners written with = instead of |=
CornersOverwrite(g, top, bottom, left, right) ==
    SetAt(SetAt(SetAt(SetAt(g, top, left, 6), top, right, 10), bottom, left, 5),
          bottom, right, 9)

Corners(g, top, bottom, left, right) ==
    OrAt(OrAt(OrAt(OrAt(g, top, left, 6), top, right, 10), bottom, left, 5),
         bottom, right, 9)

\* the points grid after an accepted build_block
BlockPoints(g, top, bottom, left, right) ==
    Corners(HorizontalEdges(VerticalEdges(g, top, bottom, left, right),
                            top, bottom, left, right),
            top, bottom, left, right)

\* GameView::update_block_char: every cell's glyph from the lookup table
update_block_char(g) ==
    [r \in DOMAIN g |-> [c \in DOMAIN g[r] |-> CHAR_VIEW_LIST[g[r][c] + 1]]]

\* the 3 x 3 hole frames of main, i in 0..8, and their centres
HoleRect(i) ==
    [top |-> 3 + 6 * (i \div 3), bottom |-> 7 + 6 * (i \div 3),
     left |-> 3 + 12 * (i % 3), right |-> 11 + 12 * (i % 3)]

\* a centre that is put on the frame's top left corner
HolePointOnFrame(i) == [x |-> HoleRect(i).left, y |-> HoleRect(i).top]

HolePoint(i) ==
    [x |-> (HoleRect(i).left + HoleRect(i).right) \div 2,
     y |-> (HoleRect(i).top + HoleRect(i).bottom) \div 2]

---------------------------------------------------------------------------
(* State *)

VARIABLES
    points,        \* GameView.points of the build_block specifications
    views,         \* GameView.views of the build_block specifications
    rects,         \* the rectangles build_block has accepted so far
    lastCall,      \* the arguments of the latest build_block call
    ncalls,        \* how many build_block calls were made
    exited,        \* build_block took its exit(0) path
    state,         \* game.state
    scores,        \* game.scores
    time,          \* game.time
    hole_marmots,  \* game.view.hole_marmots: the appeared flags, hole idx at idx + 1
    holeView,      \* game.view.views at the centre cell of each hole
    has_egg,       \* main's has_egg
    banners,       \* how many times the win banner was printed
    lock,          \* the holder of the GAME mutex
    pcMain,        \* where the main thread is
    pcSpawn,       \* where the spawn thread is
    pcTimer,       \* where the timer thread is
    key,           \* the digit key main is processing
    struck,        \* the event main is processing has scored
    timeView       \* game.view.views, row 11 from column 50 on

blockVars == << points, views, rects, lastCall, ncalls, exited >>
gameVars == << state, scores, time, hole_marmots, holeView, has_egg, banners,
               lock, pcMain, pcSpawn, pcTimer, key, struck, timeView >>
vars == << blockVars, gameVars >>

NoCall == [top |-> 0, bottom |-> 0, left |-> 0, right |-> 0]

HoleIdx == 0..(NumHoles - 1)

MOUSE == "U+1F42D"
CROSS == "U+274C"

\* lazy_static GAME = Game::new(70 x 25), before main runs
Init ==
    /\ points = NewPoints(BlockSize)
    /\ views = [r \in 0..(GridH - 1) |-> [c \in 0..(GridW - 1) |-> " "]]
    /\ rects = {}
    /\ lastCall = NoCall
    /\ ncalls = 0
    /\ exited = FALSE
    /\ state = "Stopped"
    /\ scores = 0
    /\ time = InitTime
    /\ hole_marmots = << >>
    /\ holeView = [i \in HoleIdx |-> " "]
    /\ has_egg = FALSE
    /\ banners = 0
    /\ lock = "free"
    /\ pcMain = "boot"
    /\ pcSpawn = "none"
    /\ pcTimer = "none"
    /\ key = ""
    /\ struck = FALSE
    /\ timeView = [r \in {TimeTop} |-> [c \in TextLeft..(Width - 1) |-> " "]]

---------------------------------------------------------------------------
(* build_block on a GridW x GridH view *)

Args(top, bottom, left, right) ==
    [top |-> top, bottom |-> bottom, left |-> left, right |-> right]

\* the precondition the documentation states
ValidArgs(size, a) ==
    /\ 0 <= a.top /\ a.top < a.bottom /\ a.bottom < size.height
    /\ 0 <= a.left /\ a.left < a.right /\ a.right < size.width

ValidRects ==
    { a \in [top : 0..(GridH - 1), bottom : 0..(GridH - 1),
             left : 0..(GridW - 1), right : 0..(GridW - 1)] : ValidArgs(BlockSize, a) }

AnyRects ==
    [top : 0..GridH, bottom : 0..GridH, left : 0..GridW, right : 0..GridW]

build_block(top, bottom, left, right) ==
    /\ ~exited
    /\ ncalls < MaxCalls
    /\ ncalls' = ncalls + 1
    /\ lastCall' = Args(top, bottom, left, right)
    /\ IF Rejected(BlockSize, top, bottom, left, right)
       THEN /\ exited' = TRUE
            /\ UNCHANGED << points, views, rects >>
       ELSE /\ points' = BlockPoints(points, top, bottom, left, right)
            /\ views' = update_block_char(points')
            /\ rects' = rects \cup {Args(top, bottom, left, right)}
            /\ UNCHANGED exited
    /\ UNCHANGED gameVars

BuildValid == \E a \in ValidRects : build_block(a.top, a.bottom, a.left, a.right)

BuildAny == \E a \in AnyRects : build_block(a.top, a.bottom, a.left, a.right)

\* build_block called with rectangles that meet the precondition
SpecBlock == Init /\ [][BuildValid]_vars

\* build_block called with any arguments
SpecBlockAny == Init /\ [][BuildAny]_vars

---------------------------------------------------------------------------
(* Claims about build_block *)

Rows == 0..(GridH - 1)
Cols == 0..(GridW - 1)

\* every bit of mask is set in v
HasBits(v, mask) == BitAnd(v, mask) = mask

OnBorder(a, r, c) ==
    \/ r \in {a.top, a.bottom} /\ a.left <= c /\ c <= a.right
    \/ c \in {a.left, a.right} /\ a.top <= r /\ r <= a.bottom

\* a cell where walls of different rectangles met: a T- or cross-junction
Junction(g) == \E r \in Rows, c \in Cols : g[r][c] \in {7, 11, 13, 14, 15}

\* C8: a build_block call that violates 0 <= top < bottom < height or
\* 0 <= left < right < width takes the exit path and leaves points and views
\* as they were before the call.
C8_InvalidCallRejected ==
    [][(ncalls' # ncalls /\ ~ValidArgs(BlockSize, lastCall'))
          => (exited' /\ points' = points /\ views' = views)]_vars

\* C9: after a valid build_block the top and bottom rows have bits 12 between
\* the corners, the left and right columns have bits 3 between the corners,
\* the four corners have bits 6, 10, 5, 9, every bit set before is still set,
\* and no cell off the rectangle's border has changed.
C9_BlockPostcondition ==
    [][(ncalls' # ncalls /\ ValidArgs(BlockSize, lastCall')) =>
         LET a == lastCall' IN
         /\ ~exited'
         /\ \A c \in (a.left + 1)..(a.right - 1) :
               HasBits(points'[a.top][c], 12) /\ HasBits(points'[a.bottom][c], 12)
         /\ \A r \in (a.top + 1)..(a.bottom - 1) :
               HasBits(points'[r][a.left], 3) /\ HasBits(points'[r][a.right], 3)
         /\ HasBits(points'[a.top][a.left], 6)
         /\ HasBits(points'[a.top][a.right], 10)
         /\ HasBits(points'[a.bottom][a.left], 5)
         /\ HasBits(points'[a.bottom][a.right], 9)
         /\ \A r \in Rows, c \in Cols :
               /\ HasBits(points'[r][c], points[r][c])
               /\ ~OnBorder(a, r, c) => points'[r][c] = points[r][c]]_vars

\* a second valid call has drawn over an earlier rectangle and made a junction
C9_Witness ==
    /\ ncalls = 2 /\ ~exited /\ Cardinality(rects) = 2
    /\ ValidArgs(BlockSize, lastCall)
    /\ Junction(points)
    /\ \E r \in Rows, c \in Cols : points[r][c] = 0

\* the orders in which the rectangles of S can be built
Orders(S) ==
    { s \in [1..Cardinality(S) -> S] : \A i, j \in DOMAIN s : i # j => s[i] # s[j] }

RECURSIVE BuildAll(_, _)
BuildAll(g, s) ==
    IF s = << >> THEN g
    ELSE BuildAll(BlockPoints(g, Head(s).top, Head(s).bottom, Head(s).left, Head(s).right),
                  Tail(s))

\* C10: building the accepted rectangles in any order from the new grid gives
\* the points grid and the views grid that the calls actually made have given.
C10_OrderIndependent ==
    (\A a \in rects : ValidArgs(BlockSize, a)) =>
        \A s \in Orders(rects) :
            LET g == BuildAll(NewPoints(BlockSize), s) IN
            /\ g = points
            /\ update_block_char(g) = views

\* two different rectangles that overlap in a junction have been built
C10_Witness ==
    /\ Cardinality(rects) = 2
    /\ \A a \in rects : ValidArgs(BlockSize, a)
    /\ Junction(points)
    /\ views = update_block_char(points)
    /\ \E r \in Rows, c \in Cols : views[r][c] = "U+256C"

---------------------------------------------------------------------------
(* The game: main, the spawn thread and the timer thread around the GAME mutex *)

\* main's build_block calls, in order
StartupSeq ==
    << Args(0, Height - 1, 0, Width - 1), Args(0, Height - 1, 0, 40) >>
    \o [k \in 1..NumHoles |-> HoleRect(k - 1)]

StartupRejected ==
    \E k \in DOMAIN StartupSeq :
        Rejected(GameSize, StartupSeq[k].top, StartupSeq[k].bottom,
                 StartupSeq[k].left, StartupSeq[k].right)

\* game.view.points and game.view.views once main has built the layout
StartupPoints == BuildAll(NewPoints(GameSize), StartupSeq)
StartupViews == update_block_char(StartupPoints)

\* the hole indices that get_random_num(0, 8) and the digit keys range over
HoleInputs == 0..(Min(HoleBound, NumHoles) - 1)

\* get_random_num(1, 6)
RandomNums == 1..Min(MaxPicks, MaxMoles)

DigitChars == << "0", "1", "2", "3", "4", "5", "6", "7", "8", "9" >>

\* ch.to_digit(10) for a digit character
to_digit(ch) == CHOOSE d \in 0..9 : DigitChars[d + 1] = ch

IsHoleKey(ch) == \E d \in 1..9 : DigitChars[d + 1] = ch

\* what read() returns: character keys, another key, an event that is no key
Events ==
    {"q", "0", "x", "Enter", "Resize"} \cup { DigitChars[i + 2] : i \in HoleInputs }

\* the decimal digits of n, as format!("{}", n) writes them
RECURSIVE Digits(_)
Digits(n) ==
    IF n < 10 THEN << DigitChars[n + 1] >>
    ELSE Digits(n \div 10) \o << DigitChars[(n % 10) + 1] >>

\* format!("Scores: {}", scores), format!("Time: {}", time) and the two
\* fixed messages, character by character
ScoreWords(n) == << "S", "c", "o", "r", "e", "s", ":", " " >> \o Digits(n)
TimeWords(n) == << "T", "i", "m", "e", ":", " " >> \o Digits(n)
QuitWords ==
    << "q", ":", " ", "q", "u", "i", "t", " ", "t", "h", "e", " ", "g", "a", "m", "e" >>
OverWords == << "G", "a", "m", "e", " ", "i", "s", " ", "O", "v", "e", "r", "!" >>

\* write_words: views[top][left + i] = ch for the i-th character of words
write_words(v, left, top, words) ==
    [v EXCEPT ![top] = [c \in DOMAIN @ |->
        IF left <= c /\ c < left + Len(words) THEN words[c - left + 1] ELSE @[c]]]

Alive == pcMain # "exit"

\* threads that go ahead without waiting for the mutex
LockIgnored(l) == TRUE

\* GAME.lock() returns only when no thread holds the mutex
LockFree(l) == l = "free"

\* main, lines 218-243: lock GAME, build the layout, register the holes
MainLockBoot ==
    /\ pcMain = "boot" /\ LockFree(lock)
    /\ lock' = "main" /\ pcMain' = "build"
    /\ UNCHANGED << blockVars, struck, timeView, state, scores, time, hole_marmots, holeView, has_egg,
                    banners, pcSpawn, pcTimer, key >>

MainBuild ==
    /\ pcMain = "build"
    /\ IF StartupRejected
       THEN /\ pcMain' = "exit"
            /\ UNCHANGED << state, hole_marmots, holeView, lock, timeView >>
       ELSE /\ hole_marmots' = [k \in 1..NumHoles |-> FALSE]
            /\ timeView' = [r \in DOMAIN timeView |->
                               [c \in DOMAIN timeView[r] |-> StartupViews[r][c]]]
            /\ holeView' = [i \in HoleIdx |-> StartupViews[HolePoint(i).y][HolePoint(i).x]]
            /\ state' = "Playing"
            /\ lock' = "free"
            /\ pcMain' = "start"
    /\ UNCHANGED << blockVars, struck, scores, time, has_egg, banners, pcSpawn, pcTimer, key >>

\* start(), lines 246-254, then the two thread::spawn calls
MainLockStart ==
    /\ pcMain = "start" /\ LockFree(lock)
    /\ lock' = "main" /\ pcMain' = "overlay"
    /\ UNCHANGED << blockVars, struck, timeView, state, scores, time, hole_marmots, holeView, has_egg,
                    banners, pcSpawn, pcTimer, key >>

MainOverlay ==
    /\ pcMain = "overlay"
    /\ timeView' = write_words(timeView, TextLeft, TimeTop, TimeWords(time))
    /\ lock' = "free"
    /\ pcSpawn' = "top"
    /\ pcTimer' = "sleep"
    /\ pcMain' = "read"
    /\ UNCHANGED << blockVars, struck, state, scores, time, hole_marmots, holeView, has_egg,
                    banners, key >>

\* read() and the match on the event, lines 328-332 and 352-356; the player
\* presses digit keys only while scores < cap
MainRead(cap) ==
    /\ pcMain = "read"
    /\ \E ev \in Events :
          /\ IsHoleKey(ev) => scores < cap
          /\ IF ev = "q" THEN pcMain' = "exit" /\ key' = ""
             ELSE IF IsHoleKey(ev) THEN pcMain' = "digit" /\ key' = ev
             ELSE pcMain' = "check" /\ key' = ""
    /\ struck' = FALSE
    /\ UNCHANGED << blockVars, timeView, state, scores, time, hole_marmots, holeView, has_egg,
                    banners, lock, pcSpawn, pcTimer >>

\* the digit branch, lines 334-351
MainLockDigit ==
    /\ pcMain = "digit" /\ LockFree(lock)
    /\ lock' = "main" /\ pcMain' = "strike"
    /\ UNCHANGED << blockVars, struck, timeView, state, scores, time, hole_marmots, holeView, has_egg,
                    banners, pcSpawn, pcTimer, key >>

MainStrike ==
    /\ pcMain = "strike"
    /\ LET idx == to_digit(key) - 1 IN
       IF hole_marmots[idx + 1]
       THEN /\ holeView' = [holeView EXCEPT ![idx] = CROSS]
            /\ scores' = scores + HitPoints
            /\ struck' = TRUE
       ELSE UNCHANGED << holeView, scores, struck >>
    /\ lock' = "free"
    /\ pcMain' = "check"
    /\ key' = ""
    /\ UNCHANGED << blockVars, timeView, state, time, hole_marmots, has_egg, banners,
                    pcSpawn, pcTimer >>

\* the state the win check sets, line 361
PlayingByWin == "Playing"
StoppedByWin == "Stopped"

\* a win check that forgets has_egg
WinNowAnyTime(s, egg) == s > WinScore

\* a win check that fires one strike early
WinNowEarly(s, egg) == s > WinScore - HitPoints /\ ~egg

\* a win check that fires one strike late
WinNowLate(s, egg) == s > WinScore + HitPoints /\ ~egg

\* the condition of the win check, line 360
WinNow(s, egg) == s > WinScore /\ ~egg

\* the win check, lines 358-374
MainLockCheck ==
    /\ pcMain = "check" /\ LockFree(lock)
    /\ lock' = "main" /\ pcMain' = "egg"
    /\ UNCHANGED << blockVars, struck, timeView, state, scores, time, hole_marmots, holeView, has_egg,
                    banners, pcSpawn, pcTimer, key >>

MainWinCheck ==
    /\ pcMain = "egg"
    /\ IF WinNow(scores, has_egg)
       THEN /\ state' = StoppedByWin
            /\ has_egg' = TRUE
            /\ banners' = banners + 1
       ELSE UNCHANGED << state, has_egg, banners >>
    /\ lock' = "free"
    /\ pcMain' = "read"
    /\ UNCHANGED << blockVars, struck, timeView, scores, time, hole_marmots, holeView, pcSpawn, pcTimer, key >>

\* a spawn thread that never looks at the state
SpawnGoesOn(st) == FALSE

\* the spawn thread's test at the top of its loop, line 258
SpawnStops(st) == st = "Stopped"

\* the spawn thread, lines 257-260: lock GAME, return if Stopped; the guard
\* lives until the end of the loop body
SpawnLock ==
    /\ Alive
    /\ pcSpawn = "top" /\ LockFree(lock)
    /\ IF SpawnStops(state)
       THEN pcSpawn' = "done" /\ lock' = "free"
       ELSE pcSpawn' = "sleep" /\ lock' = "spawn"
    /\ UNCHANGED << blockVars, struck, timeView, state, scores, time, hole_marmots, holeView, has_egg,
                    banners, pcMain, pcTimer, key >>

\* lines 279-292: for each pick, appeared = true and the mouse glyph
RECURSIVE Reveal(_, _)
Reveal(hv, picks) ==
    IF picks = << >> THEN hv
    ELSE Reveal([marmots |-> [hv.marmots EXCEPT ![Head(picks) + 1] = TRUE],
                 view |-> [hv.view EXCEPT ![Head(picks)] = MOUSE]],
                Tail(picks))

\* a tick that reveals without clearing the earlier flags and glyphs
SpawnResultNoClear(marmots, view, picks) ==
    Reveal([marmots |-> marmots, view |-> view], picks)

\* lines 263-294: the appeared flags and hole glyphs after a tick that drew picks
SpawnResult(marmots, view, picks) ==
    Reveal([marmots |-> [k \in DOMAIN marmots |-> FALSE],
            view |-> [i \in DOMAIN view |-> " "]], picks)

\* the spawn thread, lines 261-300: sleep with the lock held, clear all
\* holes, reveal random_num random holes, redraw, drop the guard
SpawnTick ==
    /\ Alive
    /\ pcSpawn = "sleep"
    /\ \E random_num \in RandomNums :
          \E picks \in [1..random_num -> HoleInputs] :
             LET shown == SpawnResult(hole_marmots, holeView, picks)
             IN  /\ hole_marmots' = shown.marmots
                 /\ holeView' = shown.view
    /\ lock' = "free"
    /\ pcSpawn' = "top"
    /\ UNCHANGED << blockVars, struck, timeView, state, scores, time, has_egg, banners, pcMain, pcTimer, key >>

\* a timer that decrements without testing time > 0 (u8 wraps)
TimerOutcomeNoTest(st, t) ==
    [state |-> IF t = 0 THEN "Stopped" ELSE st, time |-> (t - 1) % 256]

\* a timer that stops the game in the tick that brings time to 0
TimerOutcomeEager(st, t) ==
    IF t > 0 THEN [state |-> IF t = 1 THEN "Stopped" ELSE st, time |-> t - 1]
    ELSE [state |-> "Stopped", time |-> t]

\* the timer's update of a Playing game, lines 310-315
TimerOutcome(st, t) ==
    IF t > 0 THEN [state |-> st, time |-> t - 1]
    ELSE [state |-> "Stopped", time |-> t]

\* the timer thread, lines 303-304: sleep, then lock GAME; the thread is
\* scheduled only once scores >= from
TimerLock(from) ==
    /\ Alive
    /\ scores >= from
    /\ pcTimer = "sleep" /\ LockFree(lock)
    /\ lock' = "timer" /\ pcTimer' = "tick"
    /\ UNCHANGED << blockVars, struck, timeView, state, scores, time, hole_marmots, holeView, has_egg,
                    banners, pcMain, pcSpawn, key >>

\* the timer thread, lines 306-321
TimerTick ==
    /\ Alive
    /\ pcTimer = "tick"
    /\ IF state = "Stopped"
       THEN /\ pcTimer' = "done"
            /\ UNCHANGED << state, time, timeView >>
       ELSE /\ state' = TimerOutcome(state, time).state
            /\ time' = TimerOutcome(state, time).time
            /\ timeView' = write_words(timeView, TextLeft, TimeTop, TimeWords(time'))
            /\ pcTimer' = "sleep"
    /\ lock' = "free"
    /\ UNCHANGED << blockVars, struck, scores, hole_marmots, holeView, has_egg, banners,
                    pcMain, pcSpawn, key >>

\* the whole countdown, with the score capped
ScoreCap == MaxHits * HitPoints

Next ==
    \/ MainLockBoot \/ MainBuild \/ MainLockStart \/ MainOverlay
    \/ MainRead(ScoreCap) \/ MainLockDigit \/ MainStrike
    \/ MainLockCheck \/ MainWinCheck
    \/ SpawnLock \/ SpawnTick
    \/ TimerLock(0) \/ TimerTick

Spec == Init /\ [][Next]_vars

\* the whole way to the winning score; the timer thread gets the lock only
\* near the end of it
FirstWin == ((WinScore \div HitPoints) + 1) * HitPoints
TimerFrom == FirstWin - PreWinHits * HitPoints
WinCap == FirstWin + PostWinHits * HitPoints

NextWin ==
    \/ MainLockBoot \/ MainBuild \/ MainLockStart \/ MainOverlay
    \/ MainRead(WinCap) \/ MainLockDigit \/ MainStrike
    \/ MainLockCheck \/ MainWinCheck
    \/ SpawnLock \/ SpawnTick
    \/ TimerLock(TimerFrom) \/ TimerTick

SpecWin == Init /\ [][NextWin]_vars

---------------------------------------------------------------------------
(* Claims about the game *)

\* main is leaving the digit branch
StrikeStep == pcMain = "strike" /\ pcMain' = "check"

\* the timer thread is leaving its critical section
TimerStep == pcTimer = "tick" /\ pcTimer' # "tick"

\* the spawn thread takes a step
SpawnStep == pcSpawn' # pcSpawn

\* main has set the state to Playing
Started == pcMain \notin {"boot", "build"}

\* C1: a digit pressed on an appeared hole adds 10 to the score and clears the
\* hole's appeared flag, and a digit pressed on a hole already struck since the
\* last spawn tick (its cell shows the cross) leaves the score unchanged.
C1_DoubleStrike ==
    [][StrikeStep =>
         /\ hole_marmots[to_digit(key)] =>
               scores' = scores + HitPoints /\ ~hole_marmots'[to_digit(key)]
         /\ holeView[to_digit(key) - 1] = CROSS => scores' = scores]_vars

\* C2: no thread is in its sleep or in read() while it holds the GAME mutex.
C2_LockDiscipline ==
    /\ pcSpawn = "sleep" => lock # "spawn"
    /\ pcTimer = "sleep" => lock # "timer"
    /\ pcMain = "read" => lock # "main"

\* C3: 0 <= time <= 60, time never increases, a timer tick that finds the game
\* Playing with time > 0 takes exactly 1 off, and no other step changes time.
C3_TimeMonotone ==
    /\ [](time \in 0..InitTime)
    /\ [][/\ time' <= time
          /\ (TimerStep /\ state = "Playing" /\ time > 0) => time' = time - 1
          /\ ~TimerStep => time' = time]_vars

\* the countdown has run down to 0 and the game is still Playing
C3_Witness == time = 0 /\ state = "Playing" /\ pcTimer = "sleep" /\ pcMain = "read"

\* C4 as stated: one timer tick from time = 1, Playing, gives time = 0 and Stopped.
C4_StoppedAfterOneTick ==
    [][(TimerStep /\ state = "Playing" /\ time = 1)
          => (time' = 0 /\ state' = "Stopped")]_vars

\* C4 as amended: one timer tick from time = 1, Playing, gives time = 0 and
\* leaves the game Playing; a timer tick that finds the game Playing with
\* time = 0 leaves time at 0 and sets the state to Stopped.
C4_StoppedOneTickLater ==
    [][/\ (TimerStep /\ state = "Playing" /\ time = 1)
             => (time' = 0 /\ state' = "Playing" /\ pcTimer' = "sleep")
       /\ (TimerStep /\ state = "Playing" /\ time = 0)
             => (time' = 0 /\ state' = "Stopped")]_vars

\* the timer has just stopped the game, the tick after the one that reached 0
C4_Witness ==
    time = 0 /\ state = "Stopped" /\ ~has_egg /\ pcTimer = "sleep" /\ lock = "free"

\* C5: once main has started the game, a Stopped state is never left.
C5_StoppedStays ==
    [][(Started /\ state = "Stopped") => state' = "Stopped"]_vars

\* the countdown has run out and the winning score was reached as well, and
\* main is back at read()
C5_Witness ==
    /\ state = "Stopped" /\ time = 0 /\ has_egg
    /\ pcTimer = "done" /\ pcSpawn = "done" /\ pcMain = "read"

\* C6: while the state is Stopped the only step the spawn thread takes is its
\* return, which changes no appeared flag and no hole glyph; it is never in
\* the middle of a tick when the state is Stopped, and it never runs again.
C6_NoSpawnAfterStop ==
    [][/\ (state = "Stopped" /\ SpawnStep)
             => (pcSpawn' = "done" /\ UNCHANGED << hole_marmots, holeView >>)
       /\ (Started /\ state' = "Stopped") => pcSpawn' # "sleep"
       /\ pcSpawn = "done" => pcSpawn' = "done"]_vars

\* the spawn thread has returned and left a mouse on the screen; main and
\* the timer thread have gone on
C6_Witness ==
    /\ state = "Stopped" /\ pcSpawn = "done" /\ pcTimer = "done"
    /\ \E i \in HoleInputs : hole_marmots[i + 1] /\ holeView[i] = MOUSE
    /\ \E i \in HoleInputs : holeView[i] = CROSS

\* C7: the banner is printed at most once, by the win check, and only when
\* scores > 1024.
C7_BannerOnce ==
    [][banners' # banners
          => (banners = 0 /\ banners' = 1 /\ scores > WinScore /\ pcMain = "egg")]_vars

\* the banner was shown, the score has gone up since, and main has been
\* through the win check again
C7_Witness ==
    banners = 1 /\ has_egg /\ scores = WinCap /\ pcMain = "read"

---------------------------------------------------------------------------
(* Claims about the lock, the input loop and the spawn tick *)

Actors == {"main", "spawn", "timer"}

\* the actor is between GAME.lock() and the drop of its guard
InCS(a) ==
    \/ a = "main" /\ pcMain \in {"build", "overlay", "strike", "egg"}
    \/ a = "spawn" /\ pcSpawn = "sleep"
    \/ a = "timer" /\ pcTimer = "tick"

\* the actor takes the step (a thread that main is just starting takes none)
StepOf(a) ==
    \/ a = "main" /\ pcMain' # pcMain
    \/ a = "spawn" /\ pcSpawn' # pcSpawn /\ pcSpawn # "none"
    \/ a = "timer" /\ pcTimer' # pcTimer /\ pcTimer # "none"

\* the Game State: score, time, status, appeared flags, the glyph cells
gameData == << state, scores, time, hole_marmots, holeView, timeView >>

\* C11: at most one actor is inside a critical section, and it is the lock's
\* holder; every step that writes score, time, status, an appeared flag or a
\* glyph cell (and with it every draw()) is taken by the actor that holds the
\* lock, from inside its critical section.
C11_MutualExclusion ==
    /\ [](/\ Cardinality({a \in Actors : InCS(a)}) <= 1
          /\ \A a \in Actors : InCS(a) <=> lock = a)
    /\ [][gameData' # gameData =>
             \E a \in Actors : /\ InCS(a) /\ lock = a /\ StepOf(a)
                               /\ \A b \in Actors \ {a} : ~StepOf(b) /\ ~InCS(b)]_vars

\* the spawn thread holds the lock while main and the timer thread wait for it
C11_Witness ==
    /\ lock = "spawn" /\ pcSpawn = "sleep"
    /\ pcMain = "digit" /\ pcTimer = "sleep" /\ scores > 0

\* main takes a step of an iteration whose event is ignorable: the read
\* itself, a digit whose hole is not appeared, and the win check that follows
\* an event that has not scored
IgnoredStep ==
    /\ StepOf("main") /\ pcMain' # "exit"
    /\ \/ pcMain \in {"read", "digit"}
       \/ pcMain = "strike" /\ ~hole_marmots[to_digit(key)]
       \/ pcMain \in {"check", "egg"} /\ ~struck

\* C12: processing a key event that is neither 'q' nor a digit of an appeared
\* hole, win check included, leaves score, time, status, the appeared flags,
\* the glyph cells and the banner-shown flag unchanged.
C12_IgnoredInputChangesNothing ==
    [][IgnoredStep => UNCHANGED << gameData, has_egg, banners >>]_vars

\* an ignorable event went through the win check with the score above 1024
C12_Witness ==
    pcMain = "read" /\ ~struck /\ scores > WinScore /\ has_egg /\ banners = 1

\* C13: once the game is Stopped no step changes the score.
C13_NoScoreAfterStop ==
    [][(Started /\ state = "Stopped") => scores' = scores]_vars

Range(f) == { f[k] : k \in DOMAIN f }

\* the holes whose appeared flag is set
Appeared(marmots) == { i \in HoleIdx : i + 1 \in DOMAIN marmots /\ marmots[i + 1] }

\* what the claim says of the flags and hole cells after a tick that drew picks
SpawnPost(marmots, view, picks) ==
    /\ Appeared(marmots) = Range(picks)
    /\ 1 <= Cardinality(Appeared(marmots))
    /\ Cardinality(Appeared(marmots)) <= Len(picks)
    /\ Len(picks) <= MaxMoles
    /\ Appeared(marmots) \subseteq HoleIdx
    /\ \A i \in HoleIdx : view[i] = IF i \in Appeared(marmots) THEN MOUSE ELSE " "

\* the spawn thread is completing a tick
SpawnTickStep == pcSpawn = "sleep" /\ pcSpawn' = "top"

\* C14: whatever the flags and hole cells were, a spawn tick that draws n and
\* the indices i1..in leaves exactly the holes {i1..in} appeared, each showing
\* the target glyph, and every other hole cell blank; every completed tick
\* is such a tick.
C14_SpawnPostcondition ==
    /\ [](pcSpawn = "sleep" =>
            \A n \in RandomNums : \A picks \in [1..n -> HoleInputs] :
               LET res == SpawnResult(hole_marmots, holeView, picks)
               IN  SpawnPost(res.marmots, res.view, picks))
    /\ [][SpawnTickStep =>
            \E n \in RandomNums : \E picks \in [1..n -> HoleInputs] :
               SpawnPost(hole_marmots', holeView', picks)]_vars

\* a later tick has run over a hole that was appeared and struck: the score is
\* above 0, no cross is left, one hole is appeared
C14_Witness ==
    /\ pcSpawn = "top" /\ scores > 0
    /\ Cardinality(Appeared(hole_marmots)) = 1
    /\ \A i \in HoleIdx : holeView[i] # CROSS
    /\ \E i \in HoleInputs : holeView[i] = MOUSE

---------------------------------------------------------------------------
(* The game with a player who presses no key: main stays in read() *)

NextIdle ==
    \/ MainLockBoot \/ MainBuild \/ MainLockStart \/ MainOverlay
    \/ SpawnLock \/ SpawnTick
    \/ TimerLock(0) \/ TimerTick

\* weak fairness on every step of every thread, lock acquisition included
SpecIdle ==
    /\ Init /\ [][NextIdle]_vars
    /\ WF_vars(MainLockBoot) /\ WF_vars(MainBuild)
    /\ WF_vars(MainLockStart) /\ WF_vars(MainOverlay)
    /\ WF_vars(SpawnLock) /\ WF_vars(SpawnTick)
    /\ WF_vars(TimerLock(0)) /\ WF_vars(TimerTick)

\* the countdown has run out and both background threads have returned
Finished ==
    time = 0 /\ state = "Stopped" /\ pcSpawn = "done" /\ pcTimer = "done"

---------------------------------------------------------------------------
(* Why the game is Stopped *)

\* C16: once main has set the state to Playing, the state is Stopped only
\* when the countdown is at 0 or the score is above 1024.
C16_StoppedForAReason ==
    Started /\ state = "Stopped" => time = 0 \/ scores > WinScore

\* the win check has stopped the game while the countdown was still running
C16_Witness ==
    /\ Started /\ state = "Stopped" /\ time > 0 /\ time < InitTime
    /\ scores > WinScore /\ has_egg /\ banners = 1

---------------------------------------------------------------------------
(* Overlays and walls *)

\* the cells write_words assigns: views[top][left + i] for each character
WordCells(left, top, words) ==
    {[r |-> top, c |-> left + i - 1] : i \in 1..Len(words)}

\* every cell an overlay writes when the score is s and the time is t: the
\* three text lines of start(), the game-over message, and the hole centres
\* that take the blank, the target glyph and the struck marker
OverlayCells(s, t) ==
    WordCells(TextLeft, ScoreTop, ScoreWords(s))
    \cup WordCells(TextLeft, TimeTop, TimeWords(t))
    \cup WordCells(TextLeft, QuitTop, QuitWords)
    \cup WordCells(TextLeft, OverTop, OverWords)
    \cup UNION {WordCells(HolePoint(i).x, HolePoint(i).y, << MOUSE >>) : i \in HoleIdx}

\* C17: with points as build_block left it at startup, every cell an overlay
\* writes for the current score and time lies inside the grid and has
\* bitmask 0, and every cell with a non-zero bitmask still shows the glyph
\* of its bitmask.
C17_OverlaysOffWalls ==
    /\ \A cell \in OverlayCells(scores, time) :
          /\ cell.r \in 0..(Height - 1) /\ cell.c \in 0..(Width - 1)
          /\ StartupPoints[cell.r][cell.c] = 0
    /\ Started =>
          /\ \A c \in DOMAIN timeView[TimeTop] :
                StartupPoints[TimeTop][c] # 0 =>
                   timeView[TimeTop][c] = CHAR_VIEW_LIST[StartupPoints[TimeTop][c] + 1]
          /\ \A i \in HoleIdx :
                StartupPoints[HolePoint(i).y][HolePoint(i).x] # 0 =>
                   holeView[i] = CHAR_VIEW_LIST[StartupPoints[HolePoint(i).y][HolePoint(i).x] + 1]

\* the longest texts have been written: a four-digit score, the game-over
\* message after a countdown to 0, a struck marker; the right wall of the
\* time row still shows its glyph
C17_Witness ==
    /\ pcMain = "read" /\ scores >= 1000 /\ time = 0 /\ state = "Stopped"
    /\ pcTimer = "done"
    /\ \E i \in HoleIdx : holeView[i] = CROSS
    /\ StartupPoints[TimeTop][Width - 1] # 0
    /\ timeView[TimeTop][Width - 1] = CHAR_VIEW_LIST[StartupPoints[TimeTop][Width - 1] + 1]

---------------------------------------------------------------------------
(* The time overlay *)

\* row 11 from column 50 up to the right wall as it reads for time t: the
\* text "Time: t", then blanks
TimeRow(t) ==
    [c \in TextLeft..(Width - 2) |->
        IF c < TextLeft + Len(TimeWords(t))
        THEN TimeWords(t)[c - TextLeft + 1] ELSE " "]

\* C18: after every timer tick that refreshes the overlay, row 11 from
\* column 50 reads "Time: " and the digits of the current time, then blanks.
C18_TimeOverlayExact ==
    [][TimerStep /\ pcTimer' = "sleep" =>
          \A c \in TextLeft..(Width - 2) : timeView'[TimeTop][c] = TimeRow(time')[c]]_vars

---------------------------------------------------------------------------
(* The win check after every event *)

\* the win check of the current event is leaving its critical section
WinCheckStep == pcMain = "egg" /\ pcMain' = "read"

\* C19: whenever main waits in read() with the score above 1024, the banner
\* has been shown and the state is Stopped; the score is a multiple of 10
\* and changes only by +10 in a strike; the win check of the event whose
\* strike brought the score to 1030 shows the banner.
C19_WinNotMissed ==
    /\ [](pcMain = "read" /\ scores > WinScore =>
             has_egg /\ banners >= 1 /\ state = "Stopped")
    /\ [](scores % HitPoints = 0)
    /\ [][scores' # scores => scores' = scores + HitPoints /\ StrikeStep]_vars
    /\ [][WinCheckStep /\ struck /\ scores = FirstWin =>
             banners' = banners + 1 /\ has_egg' /\ state' = "Stopped"]_vars

\* main is back in read() after the event whose strike brought the score to
\* 1030; the timer thread ticked while that event was being processed and the
\* spawn thread has returned since
C19_Witness ==
    /\ pcMain = "read" /\ struck /\ scores = FirstWin
    /\ has_egg /\ banners = 1 /\ state = "Stopped"
    /\ time < InitTime /\ time > 0 /\ pcSpawn = "done"

====
